---- MODULE Spec2Model ----
(***************************************************************************)
(* Model of the data ingestion layer of 2dir-insight:                      *)
(* src/src/core/data_loader.py (class DataLoader).                         *)
(*                                                                         *)
(* A state is a small file system, the record a caller holds, the          *)
(* DataLoader's own attributes, the record the main window holds, and the  *)
(* outcome of the last call.  load_data, save_data and get_data_info are   *)
(* operators translated branch by branch from the Python methods; the      *)
(* actions apply them to every path and format.  Spec is the library as    *)
(* its callers drive it, SpecGui the main window's open and save handlers  *)
(* (src/src/gui/main_window.py).                                           *)
(*                                                                         *)
(* Representation                                                          *)
(*   ndarray   [shape, dtype, fill, v]; fill = "explicit" arrays carry     *)
(*             their elements in v, flat and row by row as numpy stores    *)
(*             them; the 512 x 1024 arrays of the native decoder are       *)
(*             described by their fill ("random", "linspace") instead of   *)
(*             being enumerated.                                           *)
(*   numbers   integers; every value of the inputs is exactly              *)
(*             representable in float64, "%.18e" and repr() text, so the   *)
(*             text formats change a number's dtype, never its value.      *)
(*   metadata  a function from string keys to tagged Python values         *)
(*             [t |-> type name, ...].                                     *)
(*   files     [kind |-> "absent" | "h5" | "text" | "csv" | "json" |       *)
(*             "json_partial" | "raw", ...]                                *)
(***************************************************************************)
EXTENDS Integers, Sequences, FiniteSets, TLC

VARIABLES fs, data, out, last_save, nops, loader, current_data

vars == <<fs, data, out, last_save, nops, loader, current_data>>

(***************************************************************************)
(* Bounds of the model.                                                    *)
(***************************************************************************)
MaxDim == 2

MaxOps == 2

Dims == 1..MaxDim

(***************************************************************************)
(* Paths: pathlib.Path reduced to stem and suffix.                         *)
(***************************************************************************)
Stems == {"a"}

Suffixes == {".h5", ".txt", ".dat", ".csv", ".nmr", ".fid", ".json", ".H5"}

Paths == [stem : Stems, suffix : Suffixes]

MkPath(stem, suffix) == [stem |-> stem, suffix |-> suffix]

with_suffix(p, s) == [p EXCEPT !.suffix = s]

PathStr(p) == p.stem \o p.suffix

\* DataLoader.__init__: self.supported_formats
supported_formats == <<".nmr", ".fid", ".dat", ".txt", ".csv", ".h5">>

\* a faulty variant of InList: the suffix is lower-cased before the lookup
InListFolded(s, list) ==
    LET lower == IF s = ".H5" THEN ".h5" ELSE s
    IN  \E i \in 1..Len(list) : list[i] = lower

\* Python's `s in list`
InList(s, list) == \E i \in 1..Len(list) : list[i] = s

(***************************************************************************)
(* Outcomes of a call: a returned value or a raised exception.  site       *)
(* names the raise statement (or the library call) the exception comes     *)
(* from.                                                                   *)
(***************************************************************************)
Return(v) == [ok |-> TRUE, value |-> v]

Raise(exc, site) == [ok |-> FALSE, exc |-> exc, site |-> site]

(***************************************************************************)
(* Python values held in metadata.                                         *)
(***************************************************************************)
PyInt(n) == [t |-> "int", n |-> n]

PyStr(s) == [t |-> "str", s |-> s]

PyList(items) == [t |-> "list", items |-> items]

PyTuple(items) == [t |-> "tuple", items |-> items]

PyDict(keys) == [t |-> "dict", keys |-> keys]

NpInt64(n) == [t |-> "numpy.int64", n |-> n]

NpArray1(items) == [t |-> "numpy.ndarray", items |-> items]

IsIntLike(x) == x.t \in {"int", "numpy.int64"}

\* Python's x == y on metadata values (an ndarray compares elementwise and
\* is never a plain True)
PyEq(x, y) ==
    \/ IsIntLike(x) /\ IsIntLike(y) /\ x.n = y.n
    \/ x.t = "str" /\ y.t = "str" /\ x.s = y.s
    \/ x.t \in {"list", "tuple"} /\ y.t = x.t /\ x.items = y.items
    \/ x.t = "dict" /\ y.t = "dict" /\ x.keys = y.keys

\* the closed variant {number, string} of the data model
IsScalarOrStr(x) == x.t \in {"int", "numpy.int64", "str"}

EmptyDict == [k \in {} |-> PyInt(0)]

\* the keys of a dict in insertion order (the inputs insert in this order)
KeyOrder == <<"data_shape", "file_format", "k1", "k2", "note", "original_file">>

KeysInOrder(d) == SelectSeq(KeyOrder, LAMBDA k : k \in DOMAIN d)

(***************************************************************************)
(* numpy arrays.                                                           *)
(***************************************************************************)
Array1(dtype, v) ==
    [shape |-> <<Len(v)>>, dtype |-> dtype, fill |-> "explicit", v |-> v]

\* the n1 x n2 array of the given rows
Array2(dtype, n1, n2, rows) ==
    [shape |-> <<n1, n2>>, dtype |-> dtype, fill |-> "explicit",
     v |-> [k \in 1..(n1 * n2) |-> rows[((k - 1) \div n2) + 1][((k - 1) % n2) + 1]]]

\* the rows of a rank-2 array
Rows(a) ==
    [i \in 1..a.shape[1] |-> [j \in 1..a.shape[2] |-> a.v[(i - 1) * a.shape[2] + j]]]

Described(shape, fill) ==
    [shape |-> shape, dtype |-> "float64", fill |-> fill, v |-> <<>>]

Rank(a) == Len(a.shape)

\* numpy.linspace(0, 12, n): enumerated when its points are integers
\* (n - 1 divides 12), described otherwise
linspace(n) ==
    IF n <= 1 \/ 12 % (n - 1) = 0
    THEN Array1("float64",
                [i \in 1..n |-> IF n = 1 THEN 0 ELSE (12 * (i - 1)) \div (n - 1)])
    ELSE [shape |-> <<n>>, dtype |-> "float64", fill |-> "linspace", v |-> <<>>]

\* the same numbers with another dtype tag
AsType(a, dtype) == [a EXCEPT !.dtype = dtype]

\* numeric equality of two arrays (numpy.array_equal): same shape, same
\* elements, whatever the dtype
ArrayEqual(a, b) == a.shape = b.shape /\ a.fill = b.fill /\ a.v = b.v

\* the unified record every decoder returns
Record(spectrum, f1, f2, metadata) ==
    [spectrum |-> spectrum, frequencies_f1 |-> f1, frequencies_f2 |-> f2,
     metadata |-> metadata]

(***************************************************************************)
(* Files.                                                                  *)
(***************************************************************************)
Absent == [kind |-> "absent"]

\* Path.exists()
exists(fsys, p) == fsys[p].kind # "absent"

DatasetNames == <<"spectrum", "frequencies_f1", "frequencies_f2">>

NoneValue == [none |-> TRUE]

(***************************************************************************)
(* HDF5 (h5py).                                                            *)
(***************************************************************************)
\* f.attrs[key] = value: h5py stores what numpy can give an HDF5 type
H5Storable(x) == x.t # "dict"

\* what an attribute reads back as
H5Attr(x) ==
    CASE x.t = "int" -> NpInt64(x.n)
      [] x.t \in {"list", "tuple"} -> NpArray1(x.items)
      [] OTHER -> x

\* the least member of a non-empty set of indices, 0 for the empty set
First(bad) == IF bad = {} THEN 0 ELSE CHOOSE i \in bad : \A j \in bad : i <= j

\* a faulty variant of H5File: the f2 dataset is written from the f1 axis
H5FileAxisSlip(d, written) ==
    [kind |-> "h5",
     ds |-> [n \in {"spectrum", "frequencies_f1", "frequencies_f2"} |->
               IF n = "spectrum" THEN d.spectrum ELSE d.frequencies_f1],
     attrs |-> [k \in written |-> H5Attr(d.metadata[k])]]

\* the container _save_hdf5 leaves with the attributes of `written` set
H5File(d, written) ==
    [kind |-> "h5",
     ds |-> [n \in {"spectrum", "frequencies_f1", "frequencies_f2"} |-> d[n]],
     attrs |-> [k \in written |-> H5Attr(d.metadata[k])]]

\* DataLoader._save_hdf5
_save_hdf5(fsys, d, p) ==
    LET keys == KeysInOrder(d.metadata)
        bad == First({i \in 1..Len(keys) : ~H5Storable(d.metadata[keys[i]])})
        written == IF bad = 0 THEN DOMAIN d.metadata
                   ELSE {keys[i] : i \in 1..(bad - 1)}
    IN  [fs |-> [fsys EXCEPT ![p] = H5File(d, written)],
         res |-> IF bad = 0 THEN Return(NoneValue)
                 ELSE Raise("TypeError", "h5py.attrs.__setitem__")]

\* DataLoader._load_hdf5
_load_hdf5(fsys, p) ==
    LET f == fsys[p]
        missing == {i \in 1..3 : DatasetNames[i] \notin DOMAIN f.ds}
    IN  IF f.kind # "h5" THEN Raise("OSError", "h5py.File")
        ELSE IF missing # {}
        THEN Raise("KeyError", DatasetNames[First(missing)])
        ELSE Return(Record(f.ds["spectrum"], f.ds["frequencies_f1"],
                           f.ds["frequencies_f2"], f.attrs))

(***************************************************************************)
(* Delimited text (numpy.savetxt / numpy.loadtxt) and the JSON sidecar.    *)
(***************************************************************************)
\* numpy.savetxt(path, X): one line per row ("%.18e" per number); a 1-D
\* array is written as a column
TextFile(X) ==
    [kind |-> "text", fill |-> X.fill,
     dims |-> IF Rank(X) = 2 THEN X.shape ELSE <<X.shape[1], 1>>,
     rows |-> IF X.fill # "explicit" THEN <<>>
              ELSE IF Rank(X) = 2 THEN Rows(X)
              ELSE [i \in 1..Len(X.v) |-> <<X.v[i]>>]]

\* savetxt opens (and truncates) the file before it looks at X
EmptyFile == [kind |-> "text", fill |-> "explicit", dims |-> <<0, 0>>, rows |-> <<>>]

Savable(X) == Rank(X) \in {1, 2}

\* numpy.loadtxt(path): [ok, value]; the parsed rows are squeezed
\* (ndmin = 0), so a single row or a single column comes back 1-D
loadtxt(f) ==
    LET nr == f.dims[1]
        nc == f.dims[2]
        rect == f.fill # "explicit" \/ \A i \in 1..Len(f.rows) : Len(f.rows[i]) = nc
        col == [i \in 1..nr |-> f.rows[i][1]]
    IN  IF f.kind # "text" \/ ~rect THEN [ok |-> FALSE]
        ELSE IF nr = 0 \/ nc = 0
        THEN [ok |-> TRUE, value |-> Array1("float64", <<>>)]
        ELSE IF f.fill # "explicit"
        THEN [ok |-> TRUE, value |-> Described(<<nr, nc>>, f.fill)]
        ELSE IF nr = 1 /\ nc = 1
        THEN [ok |-> TRUE,
              value |-> [shape |-> <<>>, dtype |-> "float64", fill |-> "explicit",
                         v |-> f.rows[1]]]
        ELSE IF nr = 1 THEN [ok |-> TRUE, value |-> Array1("float64", f.rows[1])]
        ELSE IF nc = 1 THEN [ok |-> TRUE, value |-> Array1("float64", col)]
        ELSE [ok |-> TRUE, value |-> Array2("float64", nr, nc, f.rows)]

JsonEncodable(x) == x.t \in {"int", "str", "list", "tuple", "dict"}

\* what json.load gives back for a value json.dump wrote
JsonValue(x) == IF x.t = "tuple" THEN PyList(x.items) ELSE x

\* json.dump(metadata, f, indent=2) into a file opened with 'w'
JsonFile(metadata) ==
    IF \A k \in DOMAIN metadata : JsonEncodable(metadata[k])
    THEN [kind |-> "json", obj |-> [k \in DOMAIN metadata |-> JsonValue(metadata[k])]]
    ELSE [kind |-> "json_partial"]

\* DataLoader._save_text
_save_text(fsys, d, p) ==
    LET metadata_path == with_suffix(p, ".json")
        fs1 == [fsys EXCEPT ![p] = TextFile(d.spectrum)]
        fs2 == [fs1 EXCEPT ![metadata_path] = JsonFile(d.metadata)]
    IN  IF ~Savable(d.spectrum)
        THEN [fs |-> [fsys EXCEPT ![p] = EmptyFile],
              res |-> Raise("ValueError", "numpy.savetxt")]
        ELSE [fs |-> fs2,
              res |-> IF fs2[metadata_path].kind = "json" THEN Return(NoneValue)
                      ELSE Raise("TypeError", "json.dump")]

\* DataLoader._load_text_format
_load_text_format(fsys, p) ==
    LET data_matrix == loadtxt(fsys[p])
        metadata_file == with_suffix(p, ".json")
        side == fsys[metadata_file]
        metadata == IF exists(fsys, metadata_file) THEN side.obj ELSE EmptyDict
        a == data_matrix.value
    IN  IF ~data_matrix.ok THEN Raise("ValueError", "_load_text_format")
        ELSE IF exists(fsys, metadata_file) /\ side.kind # "json"
        THEN Raise("ValueError", "_load_text_format")
        ELSE IF Rank(a) # 2 THEN Raise("ValueError", "_load_text_format")
        ELSE Return(Record(a, linspace(a.shape[1]), linspace(a.shape[2]), metadata))

(***************************************************************************)
(* CSV (pandas.DataFrame.to_csv / pandas.read_csv).                        *)
(***************************************************************************)
\* pd.DataFrame(spectrum, index=f1, columns=f2) accepts its arguments
FrameOk(d) ==
    /\ Rank(d.spectrum) = 2
    /\ Rank(d.frequencies_f1) = 1 /\ Rank(d.frequencies_f2) = 1
    /\ d.frequencies_f1.shape[1] = d.spectrum.shape[1]
    /\ d.frequencies_f2.shape[1] = d.spectrum.shape[2]

\* df.to_csv(path): a header line of the column labels, then one line per
\* row: the index label and the row's values, each printed by repr()
CsvFile(d) ==
    [kind |-> "csv", header |-> d.frequencies_f2, index |-> d.frequencies_f1,
     body |-> d.spectrum]

\* DataLoader._save_csv
_save_csv(fsys, d, p) ==
    IF ~FrameOk(d) THEN [fs |-> fsys, res |-> Raise("ValueError", "pandas.DataFrame")]
    ELSE [fs |-> [fsys EXCEPT ![p] = CsvFile(d)], res |-> Return(NoneValue)]

\* read_csv's column names: the header's labels as text, a repeated label
\* made unique by a numbered tail ("0.0", "0.0.1", ...); dup counts the
\* earlier occurrences of the label
Mangled(labels) ==
    [i \in 1..Len(labels) |->
        [val |-> labels[i],
         dup |-> Cardinality({j \in 1..(i - 1) : labels[j] = labels[i]})]]

\* df.columns.values.astype(float): [ok, value]
ColumnsAsFloat(header) ==
    LET names == Mangled(header.v)
    IN  IF header.fill # "explicit" THEN [ok |-> TRUE, value |-> header]
        ELSE IF \E i \in 1..Len(names) : names[i].dup > 0 THEN [ok |-> FALSE]
        ELSE [ok |-> TRUE,
              value |-> Array1("float64", [i \in 1..Len(names) |-> names[i].val])]

CsvMetadata(p, shape) ==
    [k \in {"file_format", "original_file", "data_shape"} |->
        CASE k = "file_format" -> PyStr("csv")
          [] k = "original_file" -> PyStr(PathStr(p))
          [] OTHER -> PyTuple(shape)]

\* a savetxt file read by read_csv(index_col=0): without a comma every line
\* is one cell, the first line names the only column, and that column is
\* the index; the frame has no columns left
TextAsCsv(f, p) ==
    LET nr == f.dims[1]
        nc == f.dims[2]
        idx == [i \in 1..(nr - 1) |-> f.rows[i + 1][1]]
    IN  IF f.fill # "explicit" \/ nr = 0 \/ nc = 0
           \/ (\E i \in 1..Len(f.rows) : Len(f.rows[i]) # nc)
           \/ (nr > 1 /\ nc > 1)
        THEN Raise("ValueError", "_load_csv")
        ELSE Return(Record(Array2("object", nr - 1, 0, [i \in 1..(nr - 1) |-> <<>>]),
                           Array1("float64", idx), Array1("float64", <<>>),
                           CsvMetadata(p, <<nr - 1, 0>>)))

\* DataLoader._load_csv
_load_csv(fsys, p) ==
    LET f == fsys[p]
        freq_f2 == ColumnsAsFloat(f.header)
    IN  IF f.kind = "text" THEN TextAsCsv(f, p)
        ELSE IF f.kind # "csv" THEN Raise("ValueError", "_load_csv")
        ELSE IF ~freq_f2.ok THEN Raise("ValueError", "_load_csv")
        ELSE Return(Record(f.body, AsType(f.index, "float64"), freq_f2.value,
                           CsvMetadata(p, f.body.shape)))

(***************************************************************************)
(* Instrument-native placeholder.                                          *)
(***************************************************************************)
NmrF1Points == 512

NmrF2Points == 1024

NmrMetadata(p) ==
    [k \in {"file_format", "original_file", "note"} |->
        CASE k = "file_format" -> PyStr("nmr")
          [] k = "original_file" -> PyStr(PathStr(p))
          [] OTHER -> PyStr("NMR format loader needs implementation")]

\* DataLoader._load_nmr_format: the file is never read; the spectrum is
\* numpy.random.random((512, 1024))
_load_nmr_format(fsys, p) ==
    Return(Record(Described(<<NmrF1Points, NmrF2Points>>, "random"),
                  linspace(NmrF1Points), linspace(NmrF2Points), NmrMetadata(p)))

(***************************************************************************)
(* Dispatch.                                                               *)
(***************************************************************************)
\* the decoder load_data's if/elif chain selects for a suffix
Decoder(suffix) ==
    CASE suffix = ".h5" -> "_load_hdf5"
      [] suffix \in {".txt", ".dat"} -> "_load_text_format"
      [] suffix = ".csv" -> "_load_csv"
      [] suffix \in {".nmr", ".fid"} -> "_load_nmr_format"
      [] OTHER -> "none"

Decode(decoder, fsys, p) ==
    CASE decoder = "_load_hdf5" -> _load_hdf5(fsys, p)
      [] decoder = "_load_text_format" -> _load_text_format(fsys, p)
      [] decoder = "_load_csv" -> _load_csv(fsys, p)
      [] decoder = "_load_nmr_format" -> _load_nmr_format(fsys, p)
      [] OTHER -> Raise("NotImplementedError", "load_data")

\* a faulty variant of load_data: the suffix is looked up before the path
load_data_suffix_first(fsys, p) ==
    IF ~InList(p.suffix, supported_formats)
    THEN [decoder |-> "none", res |-> Raise("ValueError", "load_data")]
    ELSE IF ~exists(fsys, p)
    THEN [decoder |-> "none", res |-> Raise("FileNotFoundError", "load_data")]
    ELSE [decoder |-> Decoder(p.suffix), res |-> Decode(Decoder(p.suffix), fsys, p)]

\* DataLoader.load_data: the decoder it called ("none" if none) and the
\* outcome
load_data(fsys, p) ==
    IF ~exists(fsys, p)
    THEN [decoder |-> "none", res |-> Raise("FileNotFoundError", "load_data")]
    ELSE IF ~InList(p.suffix, supported_formats)
    THEN [decoder |-> "none", res |-> Raise("ValueError", "load_data")]
    ELSE [decoder |-> Decoder(p.suffix), res |-> Decode(Decoder(p.suffix), fsys, p)]

Formats == {"h5", "csv", "txt", "xml"}

\* DataLoader.save_data: the file system it leaves and the outcome
save_data(fsys, d, p, format) ==
    CASE format = "h5" -> _save_hdf5(fsys, d, p)
      [] format = "csv" -> _save_csv(fsys, d, p)
      [] format = "txt" -> _save_text(fsys, d, p)
      [] OTHER -> [fs |-> fsys, res |-> Raise("ValueError", "save_data")]

(***************************************************************************)
(* Introspection.                                                          *)
(***************************************************************************)
RECURSIVE SumSeq(_)
SumSeq(v) == IF v = <<>> THEN 0 ELSE v[1] + SumSeq(Tail(v))

Squares(v) == [i \in 1..Len(v) |-> v[i] * v[i]]

Elements(a) == {a.v[i] : i \in 1..Len(a.v)}

\* the number of elements of an array
Size(a) ==
    IF Rank(a) = 0 THEN 1
    ELSE IF Rank(a) = 1 THEN a.shape[1]
    ELSE a.shape[1] * a.shape[2]

\* np.min / np.max: undefined (ValueError) on an array without elements
np_min(a) ==
    IF a.fill # "explicit" THEN [of |-> a.fill, stat |-> "min"]
    ELSE [of |-> "explicit", stat |-> "min",
          x |-> CHOOSE x \in Elements(a) : \A y \in Elements(a) : x <= y]

np_max(a) ==
    IF a.fill # "explicit" THEN [of |-> a.fill, stat |-> "max"]
    ELSE [of |-> "explicit", stat |-> "max",
          x |-> CHOOSE x \in Elements(a) : \A y \in Elements(a) : x >= y]

\* np.mean as the exact fraction sum / count
np_mean(a) ==
    IF a.fill # "explicit" THEN [of |-> a.fill, stat |-> "mean"]
    ELSE [of |-> "explicit", stat |-> "mean", num |-> SumSeq(a.v), den |-> Size(a)]

\* np.std as the square root of the exact fraction
\* (n * sum(x^2) - sum(x)^2) / n^2
np_std(a) ==
    IF a.fill # "explicit" THEN [of |-> a.fill, stat |-> "std"]
    ELSE [of |-> "explicit", stat |-> "std",
          sqrt_num |-> Size(a) * SumSeq(Squares(a.v)) - SumSeq(a.v) * SumSeq(a.v),
          sqrt_den |-> Size(a) * Size(a)]

DataInfo(d) ==
    [shape |-> d.spectrum.shape,
     dtype |-> d.spectrum.dtype,
     min_value |-> np_min(d.spectrum),
     max_value |-> np_max(d.spectrum),
     mean_value |-> np_mean(d.spectrum),
     std_value |-> np_std(d.spectrum),
     frequency_range_f1 |-> <<np_min(d.frequencies_f1), np_max(d.frequencies_f1)>>,
     frequency_range_f2 |-> <<np_min(d.frequencies_f2), np_max(d.frequencies_f2)>>,
     metadata |-> d.metadata]

\* a faulty variant of get_data_info: an empty spectrum or axis is
\* answered with its shape alone
get_data_info_empty_ok(d) ==
    IF Size(d.spectrum) = 0 \/ Size(d.frequencies_f1) = 0 \/ Size(d.frequencies_f2) = 0
    THEN Return([shape |-> d.spectrum.shape, dtype |-> d.spectrum.dtype,
                 metadata |-> d.metadata])
    ELSE Return(DataInfo(d))

\* DataLoader.get_data_info: the dictionary is built entry by entry, so
\* the first reduction over an array without elements raises
get_data_info(d) ==
    IF Size(d.spectrum) = 0 THEN Raise("ValueError", "np.min(spectrum)")
    ELSE IF Size(d.frequencies_f1) = 0
    THEN Raise("ValueError", "np.min(frequencies_f1)")
    ELSE IF Size(d.frequencies_f2) = 0
    THEN Raise("ValueError", "np.min(frequencies_f2)")
    ELSE Return(DataInfo(d))

(***************************************************************************)
(* Inputs: the records a caller constructs and the files found on disk.    *)
(***************************************************************************)
\* the n1 x n2 matrix 1, 2, ..., n1 * n2, row by row
Spectrum(n1, n2) ==
    Array2("float64", n1, n2, [i \in 1..n1 |-> [j \in 1..n2 |-> (i - 1) * n2 + j]])

\* the axis start, start + 1, ... of n points
Axis(n, start) == Array1("float64", [i \in 1..n |-> start + i - 1])

\* an axis of n equal points
FlatAxis(n) == Array1("float64", [i \in 1..n |-> 0])

Plain(n1, n2) == Record(Spectrum(n1, n2), Axis(n1, 0), Axis(n2, 5), EmptyDict)

OneKey(x) == [k \in {"k1"} |-> x]

TwoKeys(x, y) == [k \in {"k1", "k2"} |-> IF k = "k1" THEN x ELSE y]

InputMetadata ==
    {OneKey(PyInt(7)), OneKey(PyStr("x")), TwoKeys(PyInt(7), PyStr("x")),
     OneKey(PyList(<<1, 2>>)), OneKey(PyTuple(<<1, 2>>)), OneKey(PyDict({})),
     TwoKeys(PyInt(7), PyDict({}))}

\* every shape with well-formed axes, with a repeated f2 point, and with an
\* f1 axis one point too long; every metadata on the largest shape; a
\* spectrum without rows and one without columns
InputRecords ==
    {Plain(n1, n2) : n1 \in Dims, n2 \in Dims}
    \cup {Plain(0, MaxDim), Plain(MaxDim, 0)}
    \cup {[Plain(n1, n2) EXCEPT !.frequencies_f2 = FlatAxis(n2)] : n1 \in Dims, n2 \in Dims}
    \cup {[Plain(n1, n2) EXCEPT !.frequencies_f1 = Axis(n1 + 1, 0)] : n1 \in Dims, n2 \in Dims}
    \cup {[Plain(MaxDim, MaxDim) EXCEPT !.metadata = m] : m \in InputMetadata}

EmptyFS == [p \in Paths |-> Absent]

RawFile == [kind |-> "raw"]

\* containers not written by this program
H5MissingF2 ==
    [kind |-> "h5",
     ds |-> [n \in {"spectrum", "frequencies_f1"} |-> Plain(MaxDim, MaxDim)[n]],
     attrs |-> EmptyDict]

H5Rank1Spectrum ==
    [kind |-> "h5",
     ds |-> [n \in {"spectrum", "frequencies_f1", "frequencies_f2"} |-> Axis(MaxDim, 0)],
     attrs |-> EmptyDict]

H5Rank2Axis ==
    [kind |-> "h5",
     ds |-> [n \in {"spectrum", "frequencies_f1", "frequencies_f2"} |->
               Spectrum(MaxDim, MaxDim)],
     attrs |-> EmptyDict]

\* a container whose f1 axis is one point longer than the spectrum
H5AxisTooLong ==
    H5File([Plain(MaxDim, MaxDim) EXCEPT !.frequencies_f1 = Axis(MaxDim + 1, 0)], {})

\* a text file whose last line is one number short
RaggedText ==
    [kind |-> "text", fill |-> "explicit", dims |-> <<2, 2>>, rows |-> <<<<1, 2>>, <<3>>>>]

FoundFiles ==
    {[EmptyFS EXCEPT ![MkPath("a", ".h5")] = f] :
        f \in {H5MissingF2, H5Rank1Spectrum, H5Rank2Axis, H5AxisTooLong}}
    \cup {[EmptyFS EXCEPT ![MkPath("a", ".csv")] = CsvFile(Plain(MaxDim, MaxDim))]}
    \cup {[EmptyFS EXCEPT ![MkPath("a", ".txt")] = RaggedText]}
    \cup {[EmptyFS EXCEPT ![MkPath("a", s)] = RawFile] : s \in {".nmr", ".fid", ".H5"}}

\* a text matrix found under .dat without a sidecar, and a caller holding
\* a record with one metadata entry
FoundDat == [EmptyFS EXCEPT ![MkPath("a", ".dat")] = TextFile(Spectrum(MaxDim, MaxDim))]

Tagged == [Plain(MaxDim, MaxDim) EXCEPT !.metadata = OneKey(PyInt(7))]

(***************************************************************************)
(* The state machine.                                                      *)
(***************************************************************************)
NoSave == [made |-> FALSE]

\* DataLoader.__init__
NewLoader ==
    [supported_formats |-> supported_formats, current_data |-> NoneValue,
     metadata |-> EmptyDict]

Init ==
    /\ \/ data \in InputRecords /\ fs = EmptyFS
       \/ data = Plain(MaxDim, MaxDim) /\ fs \in FoundFiles
       \/ data = Tagged /\ fs = FoundDat
    /\ out = [op |-> "none"]
    /\ last_save = NoSave
    /\ nops = 0
    /\ loader = NewLoader
    /\ current_data = NoneValue

\* a caller decodes path p
LoadData(p) ==
    /\ nops < MaxOps
    /\ LET r == load_data(fs, p)
       IN  out' = [op |-> "load_data", path |-> p, decoder |-> r.decoder, res |-> r.res]
    /\ nops' = nops + 1
    /\ UNCHANGED <<fs, data, last_save, loader, current_data>>

\* a caller encodes the record it holds to path p in the given format
SaveData(p, format) ==
    /\ nops < MaxOps
    /\ LET r == save_data(fs, data, p, format)
       IN  /\ fs' = r.fs
           /\ out' = [op |-> "save_data", path |-> p, format |-> format, res |-> r.res]
           /\ last_save' = [made |-> TRUE, path |-> p, format |-> format, ok |-> r.res.ok]
    /\ nops' = nops + 1
    /\ UNCHANGED <<data, loader, current_data>>

\* a faulty variant of GetDataInfo: the loader keeps the record it was
\* shown
GetDataInfoKeeping ==
    /\ nops < MaxOps
    /\ out' = [op |-> "get_data_info", res |-> get_data_info(data)]
    /\ loader' = [loader EXCEPT !.current_data = data]
    /\ nops' = nops + 1
    /\ UNCHANGED <<fs, data, last_save, current_data>>

\* a caller asks for the summary of the record it holds; the method reads
\* its argument and assigns nothing
GetDataInfo ==
    /\ nops < MaxOps
    /\ out' = [op |-> "get_data_info", res |-> get_data_info(data)]
    /\ nops' = nops + 1
    /\ UNCHANGED <<fs, data, last_save, loader, current_data>>

Next ==
    \/ \E p \in Paths : LoadData(p)
    \/ \E p \in Paths, format \in Formats : SaveData(p, format)
    \/ GetDataInfo

Spec == Init /\ [][Next]_vars

(***************************************************************************)
(* The main window: MainWindow.open_file and MainWindow.save_file, with    *)
(* the path the file dialog returned.  A cancelled dialog does nothing.    *)
(***************************************************************************)
\* the table save_file looks the destination's suffix up in
format_map == [s \in {".h5", ".csv", ".txt"} |->
                 CASE s = ".h5" -> "h5" [] s = ".csv" -> "csv" [] s = ".txt" -> "txt"]

\* format_map.get(Path(file_path).suffix, 'h5')
file_format(p) == IF p.suffix \in DOMAIN format_map THEN format_map[p.suffix] ELSE "h5"

\* the disks a session starts on: one record, written by each encoder under
\* its own extension, and an instrument file
SavedDisks ==
    {save_data(EmptyFS, d, MkPath("a", e[1]), e[2]).fs :
        d \in {Plain(MaxDim, MaxDim), Tagged},
        e \in {<<".h5", "h5">>, <<".csv", "csv">>, <<".txt", "txt">>}}
    \cup {[EmptyFS EXCEPT ![MkPath("a", ".nmr")] = RawFile]}

\* MainWindow.__init__
InitGui ==
    /\ fs \in SavedDisks
    /\ loader = NewLoader
    /\ current_data = NoneValue
    /\ data = NoneValue
    /\ out = [op |-> "none"]
    /\ last_save = NoSave
    /\ nops = 0

\* MainWindow.open_file: the record is kept before the data_loaded signal
\* runs on_data_loaded, which asks the loader for the summary
OpenFile(p) ==
    /\ nops < MaxOps
    /\ LET r == load_data(fs, p)
       IN  /\ current_data' = IF r.res.ok THEN r.res.value ELSE current_data
           /\ out' = [op |-> "open_file", path |-> p, decoder |-> r.decoder,
                      res |-> r.res,
                      info |-> IF r.res.ok THEN get_data_info(r.res.value)
                               ELSE NoneValue]
    /\ nops' = nops + 1
    /\ UNCHANGED <<fs, data, last_save, loader>>

\* MainWindow.save_file: without a record it warns and returns; a failure
\* of the encoder is shown in a message box
SaveFile(p) ==
    /\ nops < MaxOps
    /\ IF current_data = NoneValue
       THEN /\ out' = [op |-> "save_file", path |-> p, called |-> FALSE]
            /\ UNCHANGED <<fs, last_save>>
       ELSE LET r == save_data(fs, current_data, p, file_format(p))
            IN  /\ fs' = r.fs
                /\ out' = [op |-> "save_file", path |-> p, called |-> TRUE,
                           format |-> file_format(p), res |-> r.res]
                /\ last_save' = [made |-> TRUE, path |-> p,
                                 format |-> file_format(p), ok |-> r.res.ok]
    /\ nops' = nops + 1
    /\ UNCHANGED <<data, loader, current_data>>

NextGui ==
    \/ \E p \in Paths : OpenFile(p)
    \/ \E p \in Paths : SaveFile(p)

SpecGui == InitGui /\ [][NextGui]_vars

(***************************************************************************)
(* Properties.                                                             *)
(***************************************************************************)
\* the last call decoded path out.path, and the last encode before it wrote
\* that path in the given format
DecodedAfterEncode(format, decoder) ==
    /\ out.op = "load_data"
    /\ out.decoder = decoder
    /\ last_save.made
    /\ last_save.format = format
    /\ last_save.path = out.path

\* a record of the data model: a rank-2 spectrum with axes of its lengths
WellFormed(r) ==
    /\ Rank(r.spectrum) = 2
    /\ Rank(r.frequencies_f1) = 1
    /\ Rank(r.frequencies_f2) = 1
    /\ r.frequencies_f1.shape[1] = r.spectrum.shape[1]
    /\ r.frequencies_f2.shape[1] = r.spectrum.shape[2]

\* the extensions the specification registers
RegisteredExtensions == {".h5", ".txt", ".dat", ".csv", ".nmr", ".fid"}

\* C1: a well-formed record whose metadata values are all scalars or
\* strings, encoded to h5 and decoded from the written file, comes back
\* with the same spectrum and axes (dtype included) and with every
\* metadata entry under its key with an equal value.
C1_H5RoundTrip ==
    (/\ DecodedAfterEncode("h5", "_load_hdf5")
     /\ WellFormed(data)
     /\ \A k \in DOMAIN data.metadata : IsScalarOrStr(data.metadata[k]))
    => /\ last_save.ok
       /\ out.res.ok
       /\ out.res.value.spectrum = data.spectrum
       /\ out.res.value.frequencies_f1 = data.frequencies_f1
       /\ out.res.value.frequencies_f2 = data.frequencies_f2
       /\ \A k \in DOMAIN data.metadata :
            /\ k \in DOMAIN out.res.value.metadata
            /\ PyEq(out.res.value.metadata[k], data.metadata[k])

\* C1's case: an h5 round trip of a record with two metadata entries and
\* axes of different lengths or values
C1_Witness ==
    /\ DecodedAfterEncode("h5", "_load_hdf5")
    /\ WellFormed(data)
    /\ DOMAIN data.metadata = {"k1", "k2"}
    /\ \A k \in DOMAIN data.metadata : IsScalarOrStr(data.metadata[k])
    /\ data.frequencies_f1 # data.frequencies_f2
    /\ out.res.ok

\* C2: load_data on a path that does not exist fails with
\* FileNotFoundError and calls no decoder, whatever the path's extension.
C2_MissingPathIsFileNotFound ==
    (out.op = "load_data" /\ ~exists(fs, out.path))
    => /\ ~out.res.ok
       /\ out.res.exc = "FileNotFoundError"
       /\ out.decoder = "none"

\* C2's case: a missing path with an unregistered extension was decoded
C2_Witness ==
    /\ out.op = "load_data"
    /\ ~exists(fs, out.path)
    /\ out.path.suffix \notin RegisteredExtensions
    /\ ~out.res.ok

\* C3: load_data on an existing path whose extension is not registered
\* (compared case-sensitively) fails with the ValueError of load_data's
\* format check, calls no decoder and returns no record.
C3_UnregisteredExtensionIsUnsupported ==
    (/\ out.op = "load_data"
     /\ exists(fs, out.path)
     /\ out.path.suffix \notin RegisteredExtensions)
    => /\ ~out.res.ok
       /\ out.res.exc = "ValueError"
       /\ out.res.site = "load_data"
       /\ out.decoder = "none"

\* C3's case: an existing file named with the upper-case extension .H5
\* was decoded
C3_Witness ==
    /\ out.op = "load_data"
    /\ exists(fs, out.path)
    /\ out.path.suffix = ".H5"
    /\ ~out.res.ok

\* C4: every record a decoder returns with a rank-2 spectrum of shape
\* (n1, n2) has len(axis_f1) = n1 and len(axis_f2) = n2; a file that does
\* not allow this makes the decode fail.
C4_AxesMatchSpectrum ==
    (out.op = "load_data" /\ out.res.ok /\ Rank(out.res.value.spectrum) = 2)
    => /\ out.res.value.frequencies_f1.shape[1] = out.res.value.spectrum.shape[1]
       /\ out.res.value.frequencies_f2.shape[1] = out.res.value.spectrum.shape[2]

\* C5: a record of shape (n1, n2), n1, n2 >= 1, encoded to delimited text
\* and decoded from the written file, comes back with an equal spectrum
\* and with the default axes linspace(0, 12, n1) and linspace(0, 12, n2).
C5_TextRoundTrip ==
    (/\ DecodedAfterEncode("txt", "_load_text_format")
     /\ Rank(data.spectrum) = 2
     /\ data.spectrum.shape[1] >= 1
     /\ data.spectrum.shape[2] >= 1)
    => /\ out.res.ok
       /\ ArrayEqual(out.res.value.spectrum, data.spectrum)
       /\ out.res.value.frequencies_f1 = linspace(data.spectrum.shape[1])
       /\ out.res.value.frequencies_f2 = linspace(data.spectrum.shape[2])

DerivedKeys == {"file_format", "original_file", "data_shape"}

\* C6: a well-formed record encoded to CSV and decoded from the written
\* file comes back with an equal spectrum and equal axes, and its metadata
\* holds derived fields only, none of the caller's entries.
C6_CsvRoundTrip ==
    (DecodedAfterEncode("csv", "_load_csv") /\ WellFormed(data))
    => /\ out.res.ok
       /\ ArrayEqual(out.res.value.spectrum, data.spectrum)
       /\ ArrayEqual(out.res.value.frequencies_f1, data.frequencies_f1)
       /\ ArrayEqual(out.res.value.frequencies_f2, data.frequencies_f2)
       /\ DOMAIN out.res.value.metadata \subseteq DerivedKeys
       /\ \A k \in DOMAIN data.metadata : k \notin DOMAIN out.res.value.metadata

\* a container lacking a required dataset, or holding one of the wrong rank
Malformed(f) ==
    \/ \E i \in 1..3 : DatasetNames[i] \notin DOMAIN f.ds
    \/ Rank(f.ds["spectrum"]) # 2
    \/ Rank(f.ds["frequencies_f1"]) # 1
    \/ Rank(f.ds["frequencies_f2"]) # 1

\* C7: decoding a container that lacks a required dataset, or whose
\* spectrum is not rank 2 or an axis not rank 1, fails and returns no
\* record.
C7_MalformedContainerFails ==
    (/\ out.op = "load_data"
     /\ out.decoder = "_load_hdf5"
     /\ fs[out.path].kind = "h5"
     /\ Malformed(fs[out.path]))
    => ~out.res.ok

HasSyntheticMarker(metadata) ==
    \/ "synthetic" \in DOMAIN metadata
    \/ \E k \in DOMAIN metadata : metadata[k] = PyStr("synthetic")

\* C8: the instrument-native decoder either fails with NotImplementedError
\* or returns a record whose metadata carries a synthetic marker.
C8_NativeDataIsMarkedSynthetic ==
    (out.op = "load_data" /\ out.decoder = "_load_nmr_format")
    => \/ ~out.res.ok /\ out.res.exc = "NotImplementedError"
       \/ out.res.ok /\ HasSyntheticMarker(out.res.value.metadata)

\* C9: an h5 encode of a record holding a metadata value that is neither a
\* scalar nor a string is rejected, and no such value becomes an attribute
\* of the container.
C9_NonScalarMetadataRejected ==
    (/\ out.op = "save_data"
     /\ out.format = "h5"
     /\ \E k \in DOMAIN data.metadata : ~IsScalarOrStr(data.metadata[k]))
    => /\ ~out.res.ok
       /\ \A k \in DOMAIN fs[out.path].attrs : IsScalarOrStr(fs[out.path].attrs[k])

\* C10: the metadata of every record a decoder returns maps its keys to
\* scalars or strings only.
C10_MetadataValuesAreScalar ==
    (out.op = "load_data" /\ out.res.ok)
    => \A k \in DOMAIN out.res.value.metadata :
         IsScalarOrStr(out.res.value.metadata[k])

\* a spectrum without elements
ZeroSized(r) == r.spectrum.shape[1] = 0 \/ r.spectrum.shape[2] = 0

\* C11: get_data_info fails (numpy's ValueError for a reduction over no
\* elements) on a record with n1 = 0 or n2 = 0, and returns the summary of
\* every well-formed record with n1, n2 >= 1.
C11_InfoFailsOnlyOnEmpty ==
    (out.op = "get_data_info" /\ Rank(data.spectrum) = 2)
    => /\ ZeroSized(data) => (~out.res.ok /\ out.res.exc = "ValueError")
       /\ (WellFormed(data) /\ ~ZeroSized(data))
            => (out.res.ok /\ out.res.value.shape = data.spectrum.shape)

\* C11's case: the summary of a record without rows was asked for
C11_Witness ==
    /\ out.op = "get_data_info"
    /\ data.spectrum.shape[1] = 0
    /\ ~out.res.ok

\* C12: a get_data_info call, returning or failing, changes neither the
\* record it is given nor the loader's attributes.
C12_InfoMutatesNothing ==
    [][out'.op = "get_data_info" /\ nops' = nops + 1
         => /\ data' = data
            /\ loader' = loader
            /\ loader'.supported_formats = supported_formats]_vars

\* C12's case: a call that failed on an empty record left the loader as
\* constructed
C12_Witness ==
    /\ out.op = "get_data_info"
    /\ ~out.res.ok
    /\ loader = NewLoader

\* the sidecar of a delimited-text destination
Sidecar(p) == with_suffix(p, ".json")

\* C13: a delimited-text encode of a record with empty metadata neither
\* creates nor modifies the sidecar file.
C13_EmptyMetadataWritesNoSidecar ==
    [][(/\ out'.op = "save_data"
        /\ out'.format = "txt"
        /\ out'.res.ok
        /\ data.metadata = EmptyDict
        /\ Sidecar(out'.path) # out'.path)
       => fs'[Sidecar(out'.path)] = fs[Sidecar(out'.path)]]_vars

\* what a decode of q answers, where it is determined by the files: the
\* native decoder draws a fresh random spectrum on every call
Decodes(fsys, q) ==
    /\ load_data(fsys, q).res.ok
    /\ load_data(fsys, q).decoder # "_load_nmr_format"

\* C14: a save_data call to p leaves what load_data returns for every
\* other path q unchanged.
C14_EncodeTouchesOnlyDestination ==
    [][out'.op = "save_data"
       => \A q \in Paths \ {out'.path} :
            Decodes(fs, q) => load_data(fs', q).res = load_data(fs, q).res]_vars

\* C16: a save_data call that fails leaves every file as it was.
C16_FailedSaveLeavesNoTrace ==
    [][(out'.op = "save_data" /\ ~out'.res.ok) => fs' = fs]_vars

\* the decoder that reads what an encoder wrote
DecoderOf(format) ==
    CASE format = "h5" -> "_load_hdf5"
      [] format = "csv" -> "_load_csv"
      [] format = "txt" -> "_load_text_format"

\* C15: a file that save_file wrote is in the format whose decoder
\* load_data selects for the file's extension.
C15_SavedInFormatOfExtension ==
    (out.op = "save_file" /\ out.called /\ out.res.ok)
    => load_data(fs, out.path).decoder = DecoderOf(out.format)

====
